---- MODULE Spec2Model ----
(***************************************************************************)
(* A model of gdrive_download.py: the ProgressTracker (progress            *)
(* aggregator), GDrive.download_file (temporary file, chunked transfer,    *)
(* rename), GDrive.get_folder_items, GDrive.count_files_and_size,          *)
(* GDrive.cp_folder and GDrive.cp.                                         *)
(*                                                                         *)
(* Three specifications share the ProgressTracker operators:               *)
(*   SpecTracker  one caller drives update_file / update_progress /        *)
(*                complete_file with arbitrary integer arguments;          *)
(*   SpecThreads  several threads call the tracker's methods, each taking  *)
(*                the tracker's lock where the code takes it;              *)
(*   Spec         one cp invocation: preflight count, tree walk and the    *)
(*                downloads with their local files.                        *)
(* File names are sequences of characters.  The remote service can fail on *)
(* every call; operations on the local file system succeed whenever their  *)
(* precondition (the file exists, the directory can be made) holds.        *)
(***************************************************************************)
EXTENDS Integers, Sequences, FiniteSets, TLC

\* ------------------------------------------------------------------ bounds
\* Largest declared file size drawn for a tracker call.
MaxSize == 2
\* Number of tracker calls one behaviour of SpecTracker makes.
MaxCalls == 5

\* ------------------------------------------------------- ProgressTracker
Max(a, b) == IF a >= b THEN a ELSE b
Min(a, b) == IF a <= b THEN a ELSE b

\* The names the tracker is told about in SpecTracker and SpecThreads.
TrackerNames == {<<"a">>, <<"b">>}

\* ProgressTracker.__init__: the fields that carry progress state.
ProgressTrackerInit(total_files) ==
    [total_files |-> total_files,
     completed_files |-> 0,
     current_file |-> <<>>,
     current_file_size |-> 0,
     current_downloaded |-> 0,
     total_bytes |-> 0,
     downloaded_bytes |-> 0]

\* update_file without the clamp of line 39.
UpdateFileNoClamp(p, filename, file_size) ==
    [p EXCEPT !.current_file = filename,
              !.current_file_size = file_size,
              !.current_downloaded = 0,
              !.total_bytes = IF file_size > 0 THEN @ + file_size ELSE @]

\* ProgressTracker.update_file, the body under the lock.
UpdateFile(p, filename, file_size) ==
    [p EXCEPT !.current_file = filename,
              !.current_file_size = Max(0, file_size),
              !.current_downloaded = 0,
              !.total_bytes = IF file_size > 0 THEN @ + file_size ELSE @]

\* update_progress adding the reported value instead of the delta.
UpdateProgressAddsValue(p, downloaded) ==
    IF downloaded >= 0 /\ downloaded <= p.current_file_size
    THEN [p EXCEPT !.current_downloaded = downloaded,
                   !.downloaded_bytes = @ + downloaded]
    ELSE p

\* ProgressTracker.update_progress, the body under the lock.
UpdateProgress(p, downloaded) ==
    IF downloaded >= 0 /\ downloaded <= p.current_file_size
    THEN LET old_downloaded == p.current_downloaded
         IN [p EXCEPT !.current_downloaded = downloaded,
                      !.downloaded_bytes =
                          IF downloaded > old_downloaded
                          THEN @ + (downloaded - old_downloaded)
                          ELSE @]
    ELSE p

\* A complete_file that counts the file twice.
CompleteFileTwice(p) == [p EXCEPT !.completed_files = @ + 2]

\* ProgressTracker.complete_file, the body under the lock.
CompleteFile(p) == [p EXCEPT !.completed_files = @ + 1]

VARIABLES
    pt,          \* the ProgressTracker's fields
    quiet,       \* ProgressTracker.quiet / cp's quiet argument
    no_progress, \* ProgressTracker.no_progress
    tg,          \* SpecTracker: what the caller has done so far (history)
    lock,        \* SpecThreads: the holder of ProgressTracker.lock, or "free"
    th,          \* SpecThreads: each thread's position and history
    cp,          \* Spec: the cp invocation (position, arguments, preflight)
    remote,      \* Spec: the remote tree the service answers from
    stack,       \* Spec: the cp_folder calls in progress, innermost last
    dl,          \* Spec: the download_file call in progress or just returned
    fs,          \* Spec: the local files, path -> content
    dirs,        \* Spec: the local directories made
    hist,        \* Spec: what the walk has done so far (history)
    nm           \* SpecNames: the name a naming rule is applied to, the results

trackerVars == <<pt, quiet, no_progress>>
threadVars == <<lock, th>>
cpVars == <<cp, remote, stack, dl, fs, dirs, hist>>
vars == <<pt, quiet, no_progress, tg, lock, th,
          cp, remote, stack, dl, fs, dirs, hist, nm>>

\* ------------------------------------------------------------ SpecThreads
\* The download tasks that share one tracker, and the thread that runs cp.
Tasks == {"t1", "t2"}
Threads == Tasks \cup {"main"}

\* The name each task downloads.
TaskFile(t) == IF t = "t1" THEN <<"a">> ELSE <<"b">>

ThInit ==
    [t \in Threads |->
        [pc |-> IF t = "main" THEN "join" ELSE "start",
         ret |-> <<>>,        \* return positions of the calls in progress
         declared |-> 0,      \* file_size of the task's file
         arg |-> 0,           \* argument of the update_progress in progress
         last |-> 0,          \* the task's last reported value
         reports |-> 0,       \* chunks the task has received
         completes |-> 0]]    \* complete_file calls the task has made

\* The naming variable of a run that applies no naming rule on its own.
NmIdle == [pc |-> "idle"]

\* The cp variables of a run in which cp is not invoked.
CpIdle ==
    /\ cp = [pc |-> "idle"]
    /\ remote = "none"
    /\ stack = <<>>
    /\ dl = [pc |-> "idle"]
    /\ fs = <<>>
    /\ dirs = {}
    /\ hist = <<>>

\* ------------------------------------------------------------ SpecTracker
\* History of the calls made so far, kept beside the tracker to state the
\* claims: it never influences the tracker.
TgInit ==
    [calls |-> 0,          \* tracker calls made
     began |-> FALSE,      \* update_file has been called
     files |-> 0,          \* update_file calls
     declared |-> 0,       \* file_size argument of the last update_file
     base |-> 0,           \* downloaded_bytes at the last update_file
     maxAcc |-> 0,         \* largest accepted report for the current file
     last |-> 0,           \* last report for the current file
     reports |-> 0,        \* reports made for the current file
     sumFinal |-> 0,       \* sum of the last reports of the earlier files
     mono |-> TRUE,        \* sizes >= 0, reports non-decreasing in [0, s]
     dup |-> FALSE,        \* a report repeated the previous value
     smaller |-> FALSE,    \* a report was smaller than an earlier one
     negSize |-> FALSE,    \* update_file got a negative size
     badReport |-> {},     \* kinds of out-of-range report seen
     completes |-> 0]      \* complete_file calls

TrackerInit ==
    /\ pt = ProgressTrackerInit(1)
    /\ quiet = FALSE
    /\ no_progress = FALSE
    /\ tg = TgInit
    /\ lock = "free"
    /\ th = ThInit
    /\ nm = NmIdle
    /\ CpIdle

TrackerUpdateFile ==
    \E filename \in TrackerNames, file_size \in -1..MaxSize :
        /\ tg.calls < MaxCalls
        /\ pt' = UpdateFile(pt, filename, file_size)
        /\ UNCHANGED <<nm, quiet, no_progress, threadVars, cpVars>>
        /\ tg' = [tg EXCEPT !.calls = @ + 1,
                            !.began = TRUE,
                            !.files = @ + 1,
                            !.declared = file_size,
                            !.base = pt.downloaded_bytes,
                            !.maxAcc = 0,
                            !.last = 0,
                            !.reports = 0,
                            !.sumFinal = @ + tg.last,
                            !.mono = @ /\ file_size >= 0,
                            !.negSize = @ \/ file_size < 0]

TrackerUpdateProgress ==
    \E downloaded \in -1..(MaxSize + 1) :
        LET accepted == downloaded >= 0 /\ downloaded <= pt.current_file_size
        IN  /\ tg.calls < MaxCalls
            /\ pt' = UpdateProgress(pt, downloaded)
            /\ UNCHANGED <<nm, quiet, no_progress, threadVars, cpVars>>
            /\ tg' = [tg EXCEPT
                 !.calls = @ + 1,
                 !.maxAcc = IF accepted THEN Max(@, downloaded) ELSE @,
                 !.last = downloaded,
                 !.reports = @ + 1,
                 !.mono = /\ @
                          /\ tg.began
                          /\ downloaded >= tg.last
                          /\ downloaded >= 0
                          /\ downloaded <= tg.declared,
                 !.dup = @ \/ (tg.reports > 0 /\ downloaded = tg.last),
                 !.smaller = @ \/ (accepted /\ downloaded < tg.maxAcc),
                 !.badReport = @ \cup
                     (IF downloaded < 0 THEN {"negative"} ELSE {}) \cup
                     (IF downloaded > pt.current_file_size
                      THEN {"oversized"} ELSE {})]

TrackerCompleteFile ==
    /\ tg.calls < MaxCalls
    /\ pt' = CompleteFile(pt)
    /\ UNCHANGED <<nm, quiet, no_progress, threadVars, cpVars>>
    /\ tg' = [tg EXCEPT !.calls = @ + 1, !.completes = @ + 1]

TrackerNext ==
    \/ TrackerUpdateFile
    \/ TrackerUpdateProgress
    \/ TrackerCompleteFile

SpecTracker == TrackerInit /\ [][TrackerNext]_vars

\* C3: after update_file, the amount added to downloaded_bytes for the
\* current file equals the largest accepted value reported so far, for any
\* sequence of reports (a smaller report is ignored and a later larger one
\* is not counted twice).
C3_AddedEqualsLargestAccepted ==
    tg.began => pt.downloaded_bytes - tg.base = tg.maxAcc

\* C4: for files processed one after another, each with declared size
\* s >= 0 and non-decreasing reports within [0, s] (duplicates allowed),
\* downloaded_bytes equals the sum over the files of the last reported value.
C4_SumOfFinalReports ==
    tg.mono => pt.downloaded_bytes = tg.sumFinal + tg.last

\* Two files, each with a positive final report, one report repeated.
C4_Witness ==
    /\ tg.mono
    /\ tg.files >= 2
    /\ tg.dup
    /\ tg.sumFinal > 0
    /\ tg.last > 0

\* C6: after any sequence of update_file, update_progress and complete_file
\* calls with arbitrary integer arguments,
\* 0 <= current_downloaded <= current_file_size.
C6_CurrentWithinSize ==
    /\ 0 <= pt.current_downloaded
    /\ pt.current_downloaded <= pt.current_file_size

\* A negative size, a negative report and an oversized report were all
\* passed, and a file was completed.
C6_Witness ==
    /\ tg.negSize
    /\ tg.badReport = {"negative", "oversized"}
    /\ tg.completes > 0

\* ------------------------------------------------------------ SpecThreads
\* Each task runs the tracker calls of one download_file (lines 306-334):
\* update_file, then per chunk update_progress and display_progress, then
\* complete_file.  The thread that runs cp prints the final summary (lines
\* 441-449) once the tasks are done.  A method that opens "with self.lock"
\* waits at <method>_lock and holds the lock at <method>_body.
\* Number of chunks a task receives at most.
MaxReports == 2

ThreadsInit ==
    /\ pt = ProgressTrackerInit(Cardinality(Tasks))
    /\ quiet \in BOOLEAN
    /\ no_progress \in BOOLEAN
    /\ tg = TgInit
    /\ lock = "free"
    /\ th = ThInit
    /\ nm = NmIdle
    /\ CpIdle

\* Per method: the position at which a caller waits when the method opens
\* "with self.lock", and the position at which its body begins.
MethodPcs ==
    [update_file |-> [wait |-> "update_file_lock", body |-> "update_file_body"],
     update_progress |-> [wait |-> "update_progress_lock",
                          body |-> "update_progress_body"],
     complete_file |-> [wait |-> "complete_file_lock",
                        body |-> "complete_file_body"],
     display_progress |-> [wait |-> "display_progress_lock",
                           body |-> "display_progress_body"],
     get_speed |-> [wait |-> "get_speed_lock", body |-> "get_speed"]]

\* A tracker whose get_speed opens "with self.lock" as well.
LockingMethodsAndGetSpeed ==
    {"update_file", "update_progress", "complete_file", "display_progress",
     "get_speed"}

\* The methods that open "with self.lock" (lines 37, 45, 55 and 94);
\* get_speed, get_eta and format_size do not.
LockingMethods ==
    {"update_file", "update_progress", "complete_file", "display_progress"}

\* The positions at which a thread waits for the lock, and the position it
\* is in once it has it.
LockBody(pc) ==
    IF \E m \in LockingMethods : MethodPcs[m].wait = pc
    THEN MethodPcs[CHOOSE m \in LockingMethods : MethodPcs[m].wait = pc].body
    ELSE "none"

\* Where a call of get_speed begins: at its body, as it takes no lock.
GetSpeedCall ==
    IF "get_speed" \in LockingMethods
    THEN MethodPcs.get_speed.wait ELSE MethodPcs.get_speed.body

\* The sizes a task's file can have: unknown (0, which skips the progress
\* calls) or MaxSize.
TaskSizes == {0, MaxSize}

\* download_file line 308: the call of update_file(file_name, file_size).
ThBeginFile(t) ==
    \E file_size \in TaskSizes :
        /\ t \in Tasks
        /\ th[t].pc = "start"
        /\ th' = [th EXCEPT ![t].pc = "update_file_lock",
                            ![t].declared = file_size]
        /\ UNCHANGED <<nm, trackerVars, tg, lock, cpVars>>

\* "with self.lock": threading.Lock is not reentrant, the caller waits until
\* the lock is free, whoever holds it.
ThAcquire(t) ==
    /\ LockBody(th[t].pc) # "none"
    /\ lock = "free"
    /\ lock' = t
    /\ th' = [th EXCEPT ![t].pc = LockBody(th[t].pc)]
    /\ UNCHANGED <<nm, trackerVars, tg, cpVars>>

ThUpdateFileBody(t) ==
    /\ th[t].pc = "update_file_body"
    /\ pt' = UpdateFile(pt, TaskFile(t), th[t].declared)
    /\ lock' = "free"
    /\ th' = [th EXCEPT ![t].pc = "loop"]
    /\ UNCHANGED <<nm, quiet, no_progress, tg, cpVars>>

\* download_file lines 322-328: one chunk; the task's reports are
\* non-decreasing and within its file's size.
ThNextChunk(t) ==
    \E downloaded \in th[t].last..th[t].declared :
        /\ th[t].pc = "loop"
        /\ th[t].reports < MaxReports
        /\ th' = [th EXCEPT
                    ![t].reports = @ + 1,
                    ![t].arg = downloaded,
                    ![t].last = IF th[t].declared > 0 THEN downloaded ELSE @,
                    ![t].pc = IF th[t].declared > 0
                              THEN "update_progress_lock" ELSE "loop"]
        /\ UNCHANGED <<nm, trackerVars, tg, lock, cpVars>>

ThUpdateProgressBody(t) ==
    /\ th[t].pc = "update_progress_body"
    /\ pt' = UpdateProgress(pt, th[t].arg)
    /\ lock' = "free"
    /\ th' = [th EXCEPT ![t].pc = "display_progress"]
    /\ UNCHANGED <<nm, quiet, no_progress, tg, cpVars>>

\* display_progress lines 91-92: nothing is shown in quiet or no-progress mode.
ThDisplayProgress(t) ==
    /\ th[t].pc = "display_progress"
    /\ th' = [th EXCEPT ![t].pc = IF quiet \/ no_progress
                                  THEN "loop" ELSE "display_progress_lock"]
    /\ UNCHANGED <<nm, trackerVars, tg, lock, cpVars>>

\* display_progress lines 95-104: under the lock, up to the call of get_speed.
ThDisplayProgressBody(t) ==
    /\ th[t].pc = "display_progress_body"
    /\ IF pt.total_files = 0
       THEN /\ lock' = "free"
            /\ th' = [th EXCEPT ![t].pc = "loop"]
       ELSE /\ lock' = lock
            /\ th' = [th EXCEPT ![t].pc = GetSpeedCall,
                                ![t].ret = <<"display_progress_eta">>]
    /\ UNCHANGED <<nm, trackerVars, tg, cpVars>>

\* get_speed lines 59-63: reads downloaded_bytes; takes no lock, so leaves
\* the lock with whoever holds it.
ThGetSpeed(t) ==
    /\ th[t].pc = "get_speed"
    /\ th' = [th EXCEPT ![t].pc = Head(th[t].ret), ![t].ret = Tail(th[t].ret)]
    /\ lock' = IF "get_speed" \in LockingMethods THEN "free" ELSE lock
    /\ UNCHANGED <<nm, trackerVars, tg, cpVars>>

\* display_progress line 105: the call of get_eta.
ThDisplayProgressEta(t) ==
    /\ th[t].pc = "display_progress_eta"
    /\ th' = [th EXCEPT ![t].pc = "get_eta",
                        ![t].ret = <<"display_progress_print">>]
    /\ UNCHANGED <<nm, trackerVars, tg, lock, cpVars>>

\* get_eta line 66: calls get_speed; takes no lock.
ThGetEta(t) ==
    /\ th[t].pc = "get_eta"
    /\ th' = [th EXCEPT ![t].pc = GetSpeedCall,
                        ![t].ret = <<"get_eta_rest">> \o th[t].ret]
    /\ UNCHANGED <<nm, trackerVars, tg, lock, cpVars>>

\* get_eta lines 67-81: reads total_bytes and downloaded_bytes.
ThGetEtaRest(t) ==
    /\ th[t].pc = "get_eta_rest"
    /\ th' = [th EXCEPT ![t].pc = Head(th[t].ret), ![t].ret = Tail(th[t].ret)]
    /\ UNCHANGED <<nm, trackerVars, tg, lock, cpVars>>

\* display_progress lines 108-127: formats the line from the fields, prints
\* it and leaves the "with" block.
ThDisplayProgressPrint(t) ==
    /\ th[t].pc = "display_progress_print"
    /\ lock' = "free"
    /\ th' = [th EXCEPT ![t].pc = "loop"]
    /\ UNCHANGED <<nm, trackerVars, tg, cpVars>>

\* download_file lines 331-334: the transfer is done, complete_file is called.
ThFinish(t) ==
    /\ th[t].pc = "loop"
    /\ th[t].reports >= 1
    /\ th' = [th EXCEPT ![t].pc = "complete_file_lock"]
    /\ UNCHANGED <<nm, trackerVars, tg, lock, cpVars>>

ThCompleteFileBody(t) ==
    /\ th[t].pc = "complete_file_body"
    /\ pt' = CompleteFile(pt)
    /\ lock' = "free"
    /\ th' = [th EXCEPT ![t].pc = "done", ![t].completes = @ + 1]
    /\ UNCHANGED <<nm, quiet, no_progress, tg, cpVars>>

TasksDone == \A t \in Tasks : th[t].pc = "done"

\* cp lines 441-443: after the downloads, the summary calls get_speed.
ThSummary ==
    /\ th["main"].pc = "join"
    /\ TasksDone
    /\ th' = [th EXCEPT !["main"].pc = IF quiet THEN "done" ELSE GetSpeedCall,
                        !["main"].ret = IF quiet THEN <<>> ELSE <<"summary_print">>]
    /\ UNCHANGED <<nm, trackerVars, tg, lock, cpVars>>

\* cp lines 445-449: reads completed_files, total_files and downloaded_bytes.
ThSummaryPrint ==
    /\ th["main"].pc = "summary_print"
    /\ th' = [th EXCEPT !["main"].pc = "done"]
    /\ UNCHANGED <<nm, trackerVars, tg, lock, cpVars>>

ThreadsNext ==
    \/ \E t \in Tasks :
        \/ ThBeginFile(t)
        \/ ThUpdateFileBody(t)
        \/ ThNextChunk(t)
        \/ ThUpdateProgressBody(t)
        \/ ThDisplayProgress(t)
        \/ ThDisplayProgressBody(t)
        \/ ThDisplayProgressEta(t)
        \/ ThGetEta(t)
        \/ ThGetEtaRest(t)
        \/ ThDisplayProgressPrint(t)
        \/ ThFinish(t)
        \/ ThCompleteFileBody(t)
    \/ \E t \in Threads :
        \/ ThAcquire(t)
        \/ ThGetSpeed(t)
    \/ ThSummary
    \/ ThSummaryPrint

SpecThreads == ThreadsInit /\ [][ThreadsNext]_vars

\* The threads under a scheduler that does not stop while a thread can take
\* a step: the tasks and the thread of cp are running Python threads.
SpecThreadsFair == SpecThreads /\ WF_vars(ThreadsNext)

RECURSIVE SumOver(_, _)
\* The sum of f[t] over the threads in S.
SumOver(f, S) ==
    IF S = {} THEN 0
    ELSE LET t == CHOOSE x \in S : TRUE
         IN f[t] + SumOver(f, S \ {t})

\* C7: when tasks sharing one tracker interleave their calls (each call
\* under the lock, each task's reports non-decreasing and within its file's
\* size), after all tasks finish downloaded_bytes is the sum of the tasks'
\* final reported values and completed_files is the number of
\* complete_file calls.
C7_ConcurrentTotals ==
    TasksDone =>
        /\ pt.downloaded_bytes = SumOver([t \in Tasks |-> th[t].last], Tasks)
        /\ pt.completed_files =
               SumOver([t \in Tasks |-> th[t].completes], Tasks)

\* The positions at which a thread reads or writes a ProgressState field.
AccessPcs ==
    {"update_file_body", "update_progress_body", "complete_file_body",
     "display_progress_body", "display_progress_print",
     "get_speed", "get_eta_rest", "summary_print"}

\* C8: every read and every write of a ProgressState field, by any caller
\* (get_speed, get_eta and cp's final summary included), happens while the
\* caller holds the tracker's lock.
C8_AccessUnderLock ==
    \A t \in Threads : th[t].pc \in AccessPcs => lock = t

\* ------------------------------------------------------------------ names
\* sanitize_name line 237: the characters replaced by "_".
Forbidden == {"<", ">", ":", "\"", "/", "\\", "|", "?", "*"}
\* The characters "\s" and str.strip() treat as whitespace.
Whitespace == {" ", "\t", "\n"}

RECURSIVE LStrip(_, _)
\* s without its leading characters that are in chars.
LStrip(s, chars) ==
    IF s # <<>> /\ Head(s) \in chars THEN LStrip(Tail(s), chars) ELSE s

RECURSIVE RStrip(_, _)
\* s without its trailing characters that are in chars.
RStrip(s, chars) ==
    IF s # <<>> /\ s[Len(s)] \in chars
    THEN RStrip(SubSeq(s, 1, Len(s) - 1), chars) ELSE s

RECURSIVE CollapseWhitespace(_)
\* re.sub(r'\s+', ' ', s): every maximal run of whitespace becomes one space.
CollapseWhitespace(s) ==
    IF s = <<>> THEN <<>>
    ELSE IF Head(s) \in Whitespace
         THEN <<" ">> \o CollapseWhitespace(LStrip(s, Whitespace))
         ELSE <<Head(s)>> \o CollapseWhitespace(Tail(s))

\* A sanitize_name whose last step strips trailing dots only.
SanitizeNameStripsDots(name) ==
    LET replaced == [i \in 1..Len(name) |->
                        IF name[i] \in Forbidden THEN "_" ELSE name[i]]
        stripped == RStrip(LStrip(replaced, Whitespace), Whitespace)
    IN RStrip(CollapseWhitespace(stripped), {"."})

\* GDrive.sanitize_name.
SanitizeName(name) ==
    LET replaced == [i \in 1..Len(name) |->
                        IF name[i] \in Forbidden THEN "_" ELSE name[i]]
        stripped == RStrip(LStrip(replaced, Whitespace), Whitespace)
        collapsed == CollapseWhitespace(stripped)
    IN RStrip(collapsed, {".", " "})

\* str.endswith.
EndsWith(s, suffix) ==
    /\ Len(s) >= Len(suffix)
    /\ SubSeq(s, Len(s) - Len(suffix) + 1, Len(s)) = suffix

\* download_file lines 271-294: the extension of an exported document.
ExportExtension(mime_type) ==
    CASE mime_type = "document" -> <<".", "d", "o", "c", "x">>
      [] mime_type = "spreadsheet" -> <<".", "x", "l", "s", "x">>
      [] mime_type = "presentation" -> <<".", "p", "p", "t", "x">>
      [] OTHER -> <<>>

\* An export rule that appends the extension without looking at the name.
ExportNameAppends(file_name, mime_type) ==
    file_name \o ExportExtension(mime_type)

\* download_file lines 271-294: the local name after the export rule.
ExportName(file_name, mime_type) ==
    LET ext == ExportExtension(mime_type)
    IN IF ext # <<>> /\ ~EndsWith(file_name, ext)
       THEN file_name \o ext ELSE file_name

\* Path / name: pathlib drops an empty component.
Join(dir, name) == IF name = <<>> THEN dir ELSE Append(dir, name)

\* download_file line 311: file_path.with_suffix(file_path.suffix + '.tmp'),
\* the final name with ".tmp" appended.
TempPath(file_path) ==
    [file_path EXCEPT ![Len(file_path)] = @ \o <<".", "t", "m", "p">>]

\* -------------------------------------------------- the naming rules alone
\* SpecNames applies sanitize_name and the export rule of download_file to
\* names drawn from bounded sets, once and then to their own output.

\* Longest name sanitize_name is given.
MaxNameLen == 3
\* Longest stem of a name the export rule is given.
MaxStemLen == 2

SeqsUpTo(alphabet, n) == UNION {[1..k -> alphabet] : k \in 0..n}

\* Names for sanitize_name: every forbidden character, the whitespace
\* characters, the dot and a letter.
SanitizeInputs == SeqsUpTo(Forbidden \cup Whitespace \cup {".", "a"}, MaxNameLen)

\* Names for the export rule: a stem followed by nothing, by an export
\* extension, by another extension, or by something close to an extension.
ExportSuffixes ==
    {<<>>, <<".", "d", "o", "c", "x">>, <<".", "x", "l", "s", "x">>,
     <<".", "p", "p", "t", "x">>, <<".", "t", "x", "t">>,
     <<"d", "o", "c", "x">>, <<".", "d", "o", "c">>,
     <<".", "d", "o", "c", "x", ".">>, <<".", "D", "O", "C", "X">>}
ExportInputs ==
    {stem \o suffix : stem \in SeqsUpTo({"a", "."}, MaxStemLen),
                      suffix \in ExportSuffixes}

\* The node types download_file exports, and a type it does not.
ExportTypes == {"document", "spreadsheet", "presentation"}

NamesInit ==
    /\ pt = ProgressTrackerInit(0)
    /\ quiet = FALSE
    /\ no_progress = FALSE
    /\ tg = TgInit
    /\ lock = "free"
    /\ th = ThInit
    /\ CpIdle
    /\ \E name \in SanitizeInputs \cup ExportInputs,
          mime_type \in ExportTypes \cup {"file"} :
        /\ name \notin ExportInputs => mime_type = "file"
        /\ nm = [pc |-> "given", name |-> name, mime_type |-> mime_type,
                 rule |-> "none", once |-> <<>>, twice |-> <<>>]

\* sanitize_name(name).
NmSanitizeName ==
    /\ nm.pc = "given"
    /\ nm.mime_type = "file"
    /\ nm' = [nm EXCEPT !.pc = "once", !.rule = "sanitize",
                        !.once = SanitizeName(nm.name)]
    /\ UNCHANGED <<trackerVars, tg, threadVars, cpVars>>

\* sanitize_name applied to what sanitize_name returned.
NmSanitizeNameAgain ==
    /\ nm.pc = "once"
    /\ nm.rule = "sanitize"
    /\ nm' = [nm EXCEPT !.pc = "twice", !.twice = SanitizeName(nm.once)]
    /\ UNCHANGED <<trackerVars, tg, threadVars, cpVars>>

\* The export rule of download_file for a file of type mime_type.
NmExportName ==
    /\ nm.pc = "given"
    /\ nm' = [nm EXCEPT !.pc = "once", !.rule = "export",
                        !.once = ExportName(nm.name, nm.mime_type)]
    /\ UNCHANGED <<trackerVars, tg, threadVars, cpVars>>

\* The export rule applied to its own output.
NmExportNameAgain ==
    /\ nm.pc = "once"
    /\ nm.rule = "export"
    /\ nm' = [nm EXCEPT !.pc = "twice",
                        !.twice = ExportName(nm.once, nm.mime_type)]
    /\ UNCHANGED <<trackerVars, tg, threadVars, cpVars>>

NamesNext ==
    \/ NmSanitizeName
    \/ NmSanitizeNameAgain
    \/ NmExportName
    \/ NmExportNameAgain

SpecNames == NamesInit /\ [][NamesNext]_vars

\* C16: sanitize_name is idempotent: for every name over the alphabet of
\* forbidden characters, space, tab, newline, dot and a letter, sanitizing
\* the sanitized name gives the sanitized name again.
C16_SanitizeIdempotent ==
    (nm.pc = "twice" /\ nm.rule = "sanitize") => nm.twice = nm.once

\* A name with a forbidden character, a tab and a trailing dot has been
\* sanitized twice, and the first pass changed it.
C16_Witness ==
    /\ nm.pc = "twice"
    /\ nm.rule = "sanitize"
    /\ \E i \in 1..Len(nm.name) : nm.name[i] \in Forbidden
    /\ \E i \in 1..Len(nm.name) : nm.name[i] = "\t"
    /\ nm.name[Len(nm.name)] = "."
    /\ nm.once # <<>>
    /\ nm.once # nm.name

\* C17: for a Document, Spreadsheet or Presentation the local name is the
\* given name with .docx, .xlsx or .pptx appended exactly when the name does
\* not already end with that extension; whatever the name already ends with
\* is kept in front of it, and the rule applied to its own output changes
\* nothing.
C17_ExportExtensionRule ==
    (nm.pc = "twice" /\ nm.rule = "export" /\ nm.mime_type \in ExportTypes) =>
        LET ext == CASE nm.mime_type = "document" -> <<".", "d", "o", "c", "x">>
                     [] nm.mime_type = "spreadsheet" -> <<".", "x", "l", "s", "x">>
                     [] nm.mime_type = "presentation" -> <<".", "p", "p", "t", "x">>
            n == Len(nm.name)
            has == /\ n >= Len(ext)
                   /\ \A i \in 1..Len(ext) : nm.name[n - Len(ext) + i] = ext[i]
        IN /\ has => nm.once = nm.name
           /\ ~has => nm.once = nm.name \o ext
           /\ SubSeq(nm.once, 1, n) = nm.name
           /\ nm.twice = nm.once

\* A document named with another extension got .docx appended behind it, and
\* the second application left the name alone.
C17_Witness ==
    /\ nm.pc = "twice"
    /\ nm.rule = "export"
    /\ nm.mime_type = "document"
    /\ nm.name = <<"a", ".", "t", "x", "t">>
    /\ nm.once = <<"a", ".", "t", "x", "t", ".", "d", "o", "c", "x">>
    /\ nm.twice = nm.once

\* ----------------------------------------------------------------- remote
\* A remote node: name, type, declared size (0: none declared), the target
\* of a shortcut ("" when its details name none) and, for a folder, the
\* pages in which the service lists its children.
Node(name, mimeType, size, target, pages) ==
    [name |-> name, mimeType |-> mimeType, size |-> size,
     target |-> target, pages |-> pages]

\* The remote trees of the model.  In "v1" folder R holds file a, folder D
\* and file b (b on a second page); D holds the shortcut s to a.  "v2" is
\* the tree after a change: R lists one more child, the document c, and
\* the shortcut s points to c.  The name of b sanitizes to "c.docx.tmp".  E
\* is a folder without children.
RemoteNodes(version) ==
    [id \in {"R", "D", "E", "a", "b", "c", "s"} |->
        CASE id = "R" ->
               Node(<<"R">>, "folder", 0, "",
                    IF version = "v1"
                    THEN << <<"a", "D">>, <<"b">> >>
                    ELSE << <<"a", "D">>, <<"b", "c">> >>)
          [] id = "D" -> Node(<<"D", ":">>, "folder", 0, "", << <<"s">> >>)
          [] id = "E" -> Node(<<"E">>, "folder", 0, "", << <<>> >>)
          [] id = "a" -> Node(<<"a">>, "file", 2, "", <<>>)
          [] id = "b" -> Node(<<" ", "c", ".", "d", "o", "c", "x",
                                ".", "t", "m", "p", ".">>, "file", 1, "", <<>>)
          [] id = "c" -> Node(<<"c">>, "document", 0, "", <<>>)
          [] id = "s" -> Node(<<"s">>, "shortcut", 0,
                              IF version = "v1" THEN "a" ELSE "c", <<>>)]

Versions == {"v1", "v2"}
FolderIds == {"R", "D", "E"}

\* One entry of a listing (files().list fields id, name, mimeType, size).
Item(version, id) ==
    LET n == RemoteNodes(version)[id]
    IN [id |-> id, name |-> n.name, mimeType |-> n.mimeType, size |-> n.size]

RECURSIVE GetFolderItemsFrom(_, _, _, _, _)
RECURSIVE Concat(_)
\* The concatenation of a sequence of sequences.
Concat(seqs) == IF seqs = <<>> THEN <<>> ELSE Head(seqs) \o Concat(Tail(seqs))

\* A get_folder_items that returns the pages it had when the service raised.
GetFolderItemsKeepsPages(version, folder_id, page_token, items, failAt) ==
    LET pages == RemoteNodes(version)[folder_id].pages
    IN IF failAt = page_token THEN items
       ELSE LET files == [j \in 1..Len(pages[page_token]) |->
                             Item(version, pages[page_token][j])]
            IN IF page_token < Len(pages)
               THEN GetFolderItemsFrom(version, folder_id, page_token + 1,
                                       items \o files, failAt)
               ELSE items \o files

\* get_folder_items lines 178-193: the loop from the page page_token on,
\* with the items of the earlier pages.  The page is requested; when the
\* service raises on it (failAt) the handler returns the empty list;
\* otherwise its files extend items, and the loop goes on while the answer
\* carries a token for a next page.
GetFolderItemsFrom(version, folder_id, page_token, items, failAt) ==
    LET pages == RemoteNodes(version)[folder_id].pages
    IN IF failAt = page_token THEN <<>>
       ELSE LET files == [j \in 1..Len(pages[page_token]) |->
                             Item(version, pages[page_token][j])]
            IN IF page_token < Len(pages)
               THEN GetFolderItemsFrom(version, folder_id, page_token + 1,
                                       items \o files, failAt)
               ELSE items \o files

\* GDrive.get_folder_items: failAt is the page on which the service raises
\* (0: on none).
GetFolderItems(version, folder_id, failAt) ==
    GetFolderItemsFrom(version, folder_id, 1, <<>>, failAt)

\* The pages on which a listing of the folder can fail, and 0 for no failure.
FailPoints(version, folder_id) ==
    0..Len(RemoteNodes(version)[folder_id].pages)

\* The ways the listings of one walk can fail: for every folder, the page.
FailMaps(version) ==
    {f \in [FolderIds -> 0..2] :
        \A d \in FolderIds : f[d] \in FailPoints(version, d)}

RECURSIVE CountFilesAndSize(_, _, _, _)
RECURSIVE CountItems(_, _, _, _, _)
\* A count that descends into subfolders whatever recursive says.
CountItemsAlwaysRecursive(version, items, i, recursive, fail) ==
    IF i > Len(items) THEN <<0, 0>>
    ELSE LET item == items[i]
             rest == CountItems(version, items, i + 1, recursive, fail)
             this == IF item.mimeType = "folder"
                     THEN CountFilesAndSize(version, item.id, recursive, fail)
                     ELSE <<1, Max(0, item.size)>>
         IN <<this[1] + rest[1], this[2] + rest[2]>>

\* A count that counts a shortcut as the shortcut and its target.
CountItemsShortcutTwice(version, items, i, recursive, fail) ==
    IF i > Len(items) THEN <<0, 0>>
    ELSE LET item == items[i]
             rest == CountItems(version, items, i + 1, recursive, fail)
             this == IF item.mimeType = "folder"
                     THEN IF recursive
                          THEN CountFilesAndSize(version, item.id, recursive, fail)
                          ELSE <<0, 0>>
                     ELSE IF item.mimeType = "shortcut"
                          THEN <<2, Max(0, item.size)>>
                          ELSE <<1, Max(0, item.size)>>
         IN <<this[1] + rest[1], this[2] + rest[2]>>

\* count_files_and_size lines 217-231 from item i on: <<count, total_size>>.
CountItems(version, items, i, recursive, fail) ==
    IF i > Len(items) THEN <<0, 0>>
    ELSE LET item == items[i]
             rest == CountItems(version, items, i + 1, recursive, fail)
             this == IF item.mimeType = "folder"
                     THEN IF recursive
                          THEN CountFilesAndSize(version, item.id, recursive, fail)
                          ELSE <<0, 0>>
                     ELSE <<1, Max(0, item.size)>>
         IN <<this[1] + rest[1], this[2] + rest[2]>>

\* GDrive.count_files_and_size; fail says where each folder's listing fails.
CountFilesAndSize(version, folder_id, recursive, fail) ==
    CountItems(version, GetFolderItems(version, folder_id, fail[folder_id]),
               1, recursive, fail)

RECURSIVE ListedBy(_, _, _, _)
\* count_files_and_size lines 214-219: the folders whose listing the count
\* requests, the folder itself and, with recursive, those of the folders its
\* listing returned.
ListedBy(version, folder_id, recursive, fail) ==
    LET items == GetFolderItems(version, folder_id, fail[folder_id])
        folders == {items[j].id : j \in {j \in 1..Len(items) :
                                           items[j].mimeType = "folder"}}
    IN {folder_id} \cup
       (IF recursive
        THEN UNION {ListedBy(version, d, recursive, fail) : d \in folders}
        ELSE {})

\* A cp that never takes the "No files to copy" exit.
NothingToCopyNever(total_files) == FALSE

\* cp line 402: "if total_files == 0".
NothingToCopy(total_files) == total_files = 0

\* ------------------------------------------------------------ local files
\* The content of a local file: where its bytes come from ("old" for a file
\* that was there before cp ran), the chunks written, and whether the
\* transfer that wrote them had delivered its last chunk.
OldFile == [src |-> "old", n |-> 1, done |-> TRUE]
NoFile == [src |-> "none", n |-> 0, done |-> FALSE]

FsUnlink(f, p) == [q \in DOMAIN f \ {p} |-> f[q]]
FsPut(f, p, c) == [q \in DOMAIN f \cup {p} |-> IF q = p THEN c ELSE f[q]]
\* open(p, 'wb'): creates the file, or truncates the one that is there.
FsOpenWb(f, p, src) == FsPut(f, p, [src |-> src, n |-> 0, done |-> FALSE])
\* A chunk written to the open file p.
FsWrite(f, p, done) == [f EXCEPT ![p] = [@ EXCEPT !.n = @ + 1, !.done = done]]
\* Path.rename: p takes the place of q.
FsRename(f, p, q) == FsUnlink(FsPut(f, q, f[p]), p)
ContentAt(f, p) == IF p \in DOMAIN f THEN f[p] ELSE NoFile

\* mkdir(parents=True): the directory and its ancestors.
Ancestors(dir) == {SubSeq(dir, 1, k) : k \in 0..Len(dir)}

\* ----------------------------------------------------------- download_file
\* Number of chunks one transfer delivers at most.
MaxChunks == 2
\* status.resumable_progress is drawn from k / ProgressDen, k from -1 (below
\* the clamp) to ProgressDen + 1 (above it).  It is the transfer's
\* cumulative progress: no chunk reports less than the chunk before it.
ProgressDen == 2

\* What was there when download_file was called for a shortcut (history):
\* the local files and directories, the tracker, the transfers begun, the
\* arguments.
NoCall ==
    [fs |-> <<>>, dirs |-> {}, pt |-> ProgressTrackerInit(0), transfers |-> 0,
     file_id |-> "", file_name |-> <<>>]

DlIdle ==
    [pc |-> "idle", file_id |-> "", file_name |-> <<>>, mime_type |-> "",
     output_dir |-> <<>>, file_path |-> <<>>, temp_path |-> <<>>,
     file_size |-> 0, chunks |-> 0, result |-> FALSE, pre |-> NoFile,
     raised |-> FALSE,
     progress |-> -1,      \* resumable_progress of the chunk before
     full |-> FALSE,       \* the last chunk reported a progress of 1 or more
     answer |-> "",        \* a shortcut: what the details call answered
     at |-> NoCall]

\* The call download_file(file_id, file_name, mime_type, output_dir) made
\* while the tracker is tracker.
DlCall(file_id, file_name, mime_type, output_dir, tracker) ==
    [DlIdle EXCEPT !.pc = "entry", !.file_id = file_id,
                   !.file_name = file_name, !.mime_type = mime_type,
                   !.output_dir = output_dir,
                   !.at = IF mime_type # "shortcut" THEN NoCall
                          ELSE [fs |-> fs, dirs |-> dirs, pt |-> tracker,
                                transfers |-> hist.transfers,
                                file_id |-> file_id, file_name |-> file_name]]

DlActive == dl.pc \in {"entry", "transfer", "rename", "complete"}

\* A report computed from the progress as the service gave it.
DownloadedNoClamp(k, file_size) == (k * file_size) \div ProgressDen

\* download_file lines 325-326: the bytes reported for progress k / ProgressDen.
Downloaded(k, file_size) ==
    LET progress_ratio == Min(ProgressDen, Max(0, k))
    IN (progress_ratio * file_size) \div ProgressDen

\* A transfer that writes its chunks to the final path.
TransferPathFinal(d) == d.file_path

\* download_file lines 318-319: the file the chunks are written to.
TransferPath(d) == d.temp_path

\* A handler that leaves the temporary file behind.
CleanupKeepsTemp(f, temp_path) == f

\* download_file lines 343-347: the handler removes the temporary file if
\* the path was set and the file exists.
Cleanup(f, temp_path) ==
    IF temp_path # <<>> /\ temp_path \in DOMAIN f
    THEN FsUnlink(f, temp_path) ELSE f

\* An exception of download_file that unwinds the walk.
PropagateAborts(stk, raised) == IF raised THEN <<>> ELSE stk

\* download_file lines 341-354 and cp_folder line 368: an exception in
\* download_file is caught there and becomes the result False, which the
\* walk does not look at; no cp_folder call is unwound.
Propagate(stk, raised) == stk

\* What the details call of a shortcut can answer: an error, details
\* without targetId, details without targetMimeType, both fields.
ShortcutAnswers == {"error", "no id", "no type", "full"}

\* get_shortcut_target lines 248-255: the shortcutDetails of the node, None
\* (fetched FALSE) when the call raises; "" stands for a missing field.
ShortcutDetails(version, file_id, answer) ==
    LET target == RemoteNodes(version)[file_id].target
    IN [fetched |-> answer # "error",
        targetId |-> IF answer = "no id" THEN "" ELSE target,
        targetMimeType |-> IF answer = "no type" \/ target = "" THEN ""
                           ELSE RemoteNodes(version)[target].mimeType]

\* A shortcut followed as soon as its details name a target id.
ResolveShortcutByIdOnly(details) == details.fetched /\ details.targetId # ""

\* download_file lines 263-267: the shortcut is followed when the details
\* were fetched and name both a target id and a target type.
ResolveShortcut(details) ==
    /\ details.fetched
    /\ details.targetId # ""
    /\ details.targetMimeType # ""

\* download_file lines 261-268: a shortcut.  When it resolves,
\* download_file is called again for the target, with the same local name
\* and directory; otherwise the result is False.
DlShortcut ==
    /\ dl.pc = "entry"
    /\ dl.mime_type = "shortcut"
    /\ \E answer \in ShortcutAnswers :
          LET details == ShortcutDetails(remote, dl.file_id, answer)
          IN IF ResolveShortcut(details)
             THEN dl' = [dl EXCEPT !.file_id = details.targetId,
                                   !.mime_type = details.targetMimeType,
                                   !.answer = answer]
             ELSE dl' = [dl EXCEPT !.pc = "returned", !.result = FALSE,
                                   !.answer = answer]
    /\ UNCHANGED <<nm, trackerVars, tg, threadVars, cp, remote, stack, fs, dirs, hist>>

\* download_file lines 271-318: the export name, the directory, the size
\* (0 when the metadata call fails), update_file, the removal of a file at
\* the final path and the opening of the temporary file.  mkdir raises when
\* an ancestor is a file, unlink and open raise on a directory.
DlPrepare ==
    /\ dl.pc = "entry"
    /\ dl.mime_type # "shortcut"
    /\ \E sizeFails \in BOOLEAN :
          LET file_name == ExportName(dl.file_name, dl.mime_type)
              file_path == Join(dl.output_dir, file_name)
              temp_path == TempPath(file_path)
              file_size == IF sizeFails THEN 0
                           ELSE RemoteNodes(remote)[dl.file_id].size
              mkdirFails == Ancestors(dl.output_dir) \cap DOMAIN fs # {}
              unlinkFails == file_path \in dirs
              openFails == temp_path \in dirs
              removed == IF file_path \in DOMAIN fs
                         THEN FsUnlink(fs, file_path) ELSE fs
              \* the file published under this name is this call's from now on
              own == [hist EXCEPT !.published =
                         IF file_path \in DOMAIN @
                         THEN FsUnlink(@, file_path) ELSE @]
          IN IF mkdirFails
             THEN /\ dl' = [dl EXCEPT !.pc = "returned", !.result = FALSE,
                                      !.file_name = file_name, !.raised = TRUE]
                  /\ stack' = Propagate(stack, TRUE)
                  /\ UNCHANGED <<pt, fs, dirs, hist>>
             ELSE /\ dirs' = dirs \cup Ancestors(dl.output_dir)
                  /\ pt' = UpdateFile(pt, file_name, file_size)
                  /\ IF unlinkFails \/ openFails
                     THEN /\ dl' = [dl EXCEPT
                                     !.pc = "returned", !.result = FALSE,
                                     !.file_name = file_name,
                                     !.file_path = file_path,
                                     !.temp_path = temp_path,
                                     !.file_size = file_size,
                                     !.pre = ContentAt(fs, file_path),
                                     !.raised = TRUE]
                          /\ fs' = IF unlinkFails THEN fs
                                   ELSE Cleanup(removed, temp_path)
                          /\ stack' = Propagate(stack, TRUE)
                          /\ hist' = own
                     ELSE /\ dl' = [dl EXCEPT
                                     !.pc = "transfer",
                                     !.file_name = file_name,
                                     !.file_path = file_path,
                                     !.temp_path = temp_path,
                                     !.file_size = file_size,
                                     !.pre = ContentAt(fs, file_path)]
                          /\ fs' = FsOpenWb(removed,
                                     TransferPath([file_path |-> file_path,
                                                   temp_path |-> temp_path]),
                                     dl.file_id)
                          /\ stack' = stack
                          /\ hist' = [own EXCEPT !.transfers = @ + 1]
    /\ UNCHANGED <<nm, quiet, no_progress, tg, threadVars, cp, remote>>

\* download_file lines 321-328: next_chunk returns.  The chunk is written;
\* with a status and a positive size the tracker is told and the line is
\* shown (display_progress only reads the tracker).
DlChunk ==
    /\ dl.pc = "transfer"
    /\ \E done \in BOOLEAN, status \in BOOLEAN, k \in -1..(ProgressDen + 1) :
          /\ dl.chunks + 1 < MaxChunks \/ done
          /\ k >= dl.progress
          /\ status \/ k = dl.progress
          /\ fs' = FsWrite(fs, TransferPath(dl), done)
          /\ pt' = IF status /\ cp.has_tracker /\ dl.file_size > 0
                   THEN UpdateProgress(pt, Downloaded(k, dl.file_size))
                   ELSE pt
          /\ dl' = [dl EXCEPT !.chunks = @ + 1,
                              !.progress = IF done THEN -1 ELSE k,
                              !.full = done /\ status /\ k >= ProgressDen,
                              !.pc = IF done THEN "rename" ELSE "transfer"]
    /\ UNCHANGED <<nm, quiet, no_progress, tg, threadVars, cp, remote, stack, dirs, hist>>

\* download_file lines 322, 341-354: next_chunk raises (a transport error,
\* or "File not found"); the handler cleans up and the result is False.
DlChunkRaises ==
    /\ dl.pc = "transfer"
    /\ fs' = Cleanup(fs, dl.temp_path)
    /\ dl' = [dl EXCEPT !.pc = "returned", !.result = FALSE, !.raised = TRUE]
    /\ stack' = Propagate(stack, TRUE)
    /\ UNCHANGED <<nm, trackerVars, tg, threadVars, cp, remote, dirs, hist>>

\* download_file line 331: the temporary file is renamed to the final name.
DlRename ==
    /\ dl.pc = "rename"
    /\ fs' = FsRename(fs, dl.temp_path, dl.file_path)
    /\ dl' = [dl EXCEPT !.pc = "complete"]
    /\ UNCHANGED <<nm, trackerVars, tg, threadVars, cp, remote, stack, dirs, hist>>

\* download_file lines 333-339: complete_file, the completion line, True.
DlComplete ==
    /\ dl.pc = "complete"
    /\ pt' = IF cp.has_tracker THEN CompleteFile(pt) ELSE pt
    /\ dl' = [dl EXCEPT !.pc = "returned", !.result = TRUE]
    /\ hist' = [hist EXCEPT !.returnedTrue = @ + 1,
                            !.published = FsPut(@, dl.file_path,
                                                ContentAt(fs, dl.file_path))]
    /\ UNCHANGED <<nm, quiet, no_progress, tg, threadVars, cp, remote, stack, fs, dirs>>

\* ------------------------------------------------------- cp and cp_folder
\* What cp can be asked to copy: the folders R and E, the files a and b, an
\* unknown id.
Sources == {"R", "E", "a", "b", "gone"}
\* The files that may be in the destination before cp runs.
PreExistingPaths == {<< <<"a">> >>, TempPath(<< <<"a">> >>)}
\* The name cp is given when the destination is a file path (lines 434-436).
DestFileName == <<"o", ".", "x">>

HistInit ==
    [transfers |-> 0,      \* transfers begun (temporary files opened)
     walkLog |-> <<>>,     \* per cp_folder call: its listing, the ids handed
     changed |-> FALSE,    \* the remote tree changed after cp looked at it
     outcome |-> "",       \* how cp ended
     counted |-> -1,       \* the file count of the preflight (-1: none yet)
     preItems |-> <<>>,    \* the listing of the source the preflight got
     preListed |-> {},     \* the folders the preflight asked the listing of
     preFailed |-> FALSE,  \* a listing of the preflight failed
     returnedTrue |-> 0,   \* calls of download_file by cp that returned True
     published |-> <<>>]   \* final path -> content, per successful download

\* quiet and no_progress only select what cp and the tracker print; the
\* destination of a folder copy is always taken as a directory (line 396).
Init ==
    /\ pt = ProgressTrackerInit(0)
    /\ quiet = FALSE
    /\ no_progress = FALSE
    /\ tg = TgInit
    /\ lock = "free"
    /\ th = ThInit
    /\ nm = NmIdle
    /\ \E source \in Sources, recursive \in BOOLEAN, destIsDir \in BOOLEAN :
          /\ source \in FolderIds => destIsDir
          /\ cp = [pc |-> "start", source |-> source, recursive |-> recursive,
                   destIsDir |-> destIsDir, has_tracker |-> FALSE,
                   total_files |-> 0, total_size |-> 0]
    /\ remote = "v1"
    /\ stack = <<>>
    /\ dl = DlIdle
    /\ \E present \in SUBSET PreExistingPaths : fs = [q \in present |-> OldFile]
    /\ dirs = {}
    /\ hist = HistInit

\* A cp_folder call that has not listed its folder yet.
Frame(folder_id, current_path) ==
    [folder_id |-> folder_id, current_path |-> current_path,
     listed |-> FALSE, items |-> <<>>, i |-> 1, log |-> 0]

\* cp lines 390-393: get_file_info fails or finds nothing.
CpNotFound ==
    /\ cp.pc = "start"
    /\ cp' = [cp EXCEPT !.pc = "done"]
    /\ hist' = [hist EXCEPT !.outcome = "not found"]
    /\ UNCHANGED <<nm, trackerVars, tg, threadVars, remote, stack, dl, fs, dirs>>

\* cp lines 395-413: a folder.  The preflight count, "No files to copy" when
\* it is zero, else a new tracker and the call of cp_folder.
CpFolderSource ==
    /\ cp.pc = "start"
    /\ cp.source \in FolderIds
    /\ \E fail \in FailMaps(remote) :
          LET counted == CountFilesAndSize(remote, cp.source, cp.recursive, fail)
              listed == ListedBy(remote, cp.source, cp.recursive, fail)
              pre == [hist EXCEPT
                        !.counted = counted[1],
                        !.preItems = GetFolderItems(remote, cp.source,
                                                    fail[cp.source]),
                        !.preListed = listed,
                        !.preFailed = \E d \in listed : fail[d] # 0]
          IN IF NothingToCopy(counted[1])
             THEN /\ cp' = [cp EXCEPT !.pc = "done"]
                  /\ hist' = [pre EXCEPT !.outcome = "nothing to copy"]
                  /\ UNCHANGED <<pt, stack>>
             ELSE /\ cp' = [cp EXCEPT !.pc = "walk", !.has_tracker = TRUE,
                                      !.total_files = counted[1],
                                      !.total_size = counted[2]]
                  /\ pt' = ProgressTrackerInit(counted[1])
                  /\ stack' = <<Frame(cp.source, <<>>)>>
                  /\ hist' = pre
    /\ UNCHANGED <<nm, quiet, no_progress, tg, threadVars, remote, dl, fs, dirs>>

\* cp lines 415-438: a single file.  A tracker for one file, the destination
\* rule and the call of download_file.
CpFileSource ==
    /\ cp.pc = "start"
    /\ cp.source \in DOMAIN RemoteNodes(remote)
    /\ cp.source \notin FolderIds
    /\ LET item_info == RemoteNodes(remote)[cp.source]
           original_name == SanitizeName(item_info.name)
           output_file == IF cp.destIsDir THEN original_name ELSE DestFileName
       IN dl' = DlCall(cp.source, output_file, item_info.mimeType, <<>>,
                       ProgressTrackerInit(1))
    /\ cp' = [cp EXCEPT !.pc = "single", !.has_tracker = TRUE,
                        !.total_files = 1]
    /\ pt' = ProgressTrackerInit(1)
    /\ UNCHANGED <<nm, quiet, no_progress, tg, threadVars, remote, stack, fs, dirs, hist>>

Top == stack[Len(stack)]
SetTop(fr) == [stack EXCEPT ![Len(stack)] = fr]

\* cp_folder line 357: the listing of the folder.
CpFolderList ==
    /\ stack # <<>>
    /\ ~Top.listed
    /\ \E failAt \in FailPoints(remote, Top.folder_id) :
          LET items == GetFolderItems(remote, Top.folder_id, failAt)
          IN /\ stack' = SetTop([Top EXCEPT !.listed = TRUE, !.items = items,
                                            !.log = Len(hist.walkLog) + 1])
             /\ hist' = [hist EXCEPT !.walkLog =
                            Append(@, [items |-> items, handed |-> <<>>,
                                       folder_id |-> Top.folder_id,
                                       failAt |-> failAt])]
    /\ UNCHANGED <<nm, trackerVars, tg, threadVars, cp, remote, dl, fs, dirs>>

\* cp_folder lines 359-368: the next item.  A folder is walked when
\* recursive and skipped otherwise; anything else goes to download_file.
CpFolderItem ==
    /\ stack # <<>>
    /\ Top.listed
    /\ Top.i <= Len(Top.items)
    /\ ~DlActive
    /\ LET item == Top.items[Top.i]
           name == SanitizeName(item.name)
           advanced == SetTop([Top EXCEPT !.i = @ + 1])
       IN IF item.mimeType = "folder"
          THEN /\ stack' = IF cp.recursive
                           THEN Append(advanced,
                                       Frame(item.id, Join(Top.current_path, name)))
                           ELSE advanced
               /\ UNCHANGED <<nm, dl, hist>>
          ELSE /\ stack' = advanced
               /\ dl' = DlCall(item.id, name, item.mimeType, Top.current_path,
                               pt)
               /\ hist' = [hist EXCEPT !.walkLog[Top.log].handed =
                              Append(@, item.id)]
    /\ UNCHANGED <<nm, trackerVars, tg, threadVars, cp, remote, fs, dirs>>

\* cp_folder returns when its items are exhausted.
CpFolderReturn ==
    /\ stack # <<>>
    /\ Top.listed
    /\ Top.i > Len(Top.items)
    /\ ~DlActive
    /\ stack' = SubSeq(stack, 1, Len(stack) - 1)
    /\ UNCHANGED <<nm, trackerVars, tg, threadVars, cp, remote, dl, fs, dirs, hist>>

\* cp lines 440-449: the final summary.
CpSummary ==
    /\ cp.pc \in {"walk", "single"}
    /\ stack = <<>>
    /\ ~DlActive
    /\ cp' = [cp EXCEPT !.pc = "done"]
    /\ hist' = [hist EXCEPT !.outcome = "summary"]
    /\ UNCHANGED <<nm, trackerVars, tg, threadVars, remote, stack, dl, fs, dirs>>

\* The remote tree changes while cp runs.
RemoteChange ==
    /\ cp.pc \in {"start", "walk", "single"}
    /\ remote = "v1"
    /\ remote' = "v2"
    /\ hist' = [hist EXCEPT !.changed = cp.pc # "start"]
    /\ UNCHANGED <<nm, trackerVars, tg, threadVars, cp, stack, dl, fs, dirs>>

Next ==
    \/ CpNotFound
    \/ CpFolderSource
    \/ CpFileSource
    \/ CpFolderList
    \/ CpFolderItem
    \/ CpFolderReturn
    \/ CpSummary
    \/ DlShortcut
    \/ DlPrepare
    \/ DlChunk
    \/ DlChunkRaises
    \/ DlRename
    \/ DlComplete
    \/ RemoteChange

Spec == Init /\ [][Next]_vars

\* The download_file call has set its paths (line 311 was reached).
DlHasPaths == dl.pc \in {"transfer", "rename", "complete", "returned"}
                 /\ dl.file_path # <<>>

\* C1: in every state of a download_file run the final path holds no file,
\* the file that was there when the run began, or the complete transferred
\* content: chunks go to the temporary path and only the rename after the
\* last chunk produces the final name.
C1_FinalNeverPartial ==
    DlHasPaths =>
        LET c == ContentAt(fs, dl.file_path)
        IN \/ c = NoFile
           \/ c = dl.pre
           \/ c.src = dl.file_id /\ c.done

\* A transfer has written a chunk that is not its last while a file was at
\* the final path when the run began.
C1_Witness ==
    /\ dl.pc = "transfer"
    /\ dl.chunks >= 1
    /\ dl.pre = OldFile
    /\ dl.temp_path \in DOMAIN fs
    /\ ~fs[dl.temp_path].done

\* C2: when a transfer fails after chunks were written to the temporary
\* path, once download_file has returned False neither the final path nor
\* the temporary path holds a file, whether or not a file was at the final
\* path before.
C2_FailureLeavesNoFile ==
    (dl.pc = "returned" /\ ~dl.result /\ dl.chunks >= 1) =>
        /\ dl.file_path \notin DOMAIN fs
        /\ dl.temp_path \notin DOMAIN fs

\* A transfer failed after a chunk, and a file had been at the final path.
C2_Witness ==
    /\ dl.pc = "returned"
    /\ ~dl.result
    /\ dl.chunks >= 1
    /\ dl.pre = OldFile

\* C5: in every state of a cp invocation completed_files <= total_files,
\* whatever fails and whatever the remote tree returns to the walk.
C5_CompletedWithinTotal ==
    cp.has_tracker => pt.completed_files <= pt.total_files

\* The ids of the entries of a listing that are not folders, in order.
FileIds(items) ==
    LET files == SelectSeq(items, LAMBDA it : it.mimeType # "folder")
    IN [j \in 1..Len(files) |-> files[j].id]

\* The number of folder entries in the listings of the walk.
RECURSIVE FoldersListed(_)
FoldersListed(log) ==
    IF log = <<>> THEN 0
    ELSE Len(SelectSeq(Head(log).items, LAMBDA it : it.mimeType = "folder"))
         + FoldersListed(Tail(log))

IsPrefix(a, b) == Len(a) <= Len(b) /\ SubSeq(b, 1, Len(a)) = a

\* C9: in a folder copy no failed download and no failed listing aborts the
\* walk: the file-type children of every listing of the walk are handed to
\* download_file once each, in listing order (in every state those handed so
\* far are the first ones of the listing; at the end all of them are, and
\* with recursive every listed subfolder has been walked).
C9_WalkHandsEveryFile ==
    /\ \A k \in DOMAIN hist.walkLog :
          IsPrefix(hist.walkLog[k].handed, FileIds(hist.walkLog[k].items))
    /\ hist.outcome = "summary" /\ cp.source \in FolderIds =>
          /\ \A k \in DOMAIN hist.walkLog :
                hist.walkLog[k].handed = FileIds(hist.walkLog[k].items)
          /\ Len(hist.walkLog) =
                1 + (IF cp.recursive THEN FoldersListed(hist.walkLog) ELSE 0)

\* A recursive copy ended with all four files of R and the shortcut of D
\* handed over although only one download succeeded, the last one.
C9_Witness ==
    /\ hist.outcome = "summary"
    /\ cp.recursive
    /\ Len(hist.walkLog) = 2
    /\ hist.walkLog[1].handed = <<"a", "b", "c">>
    /\ hist.walkLog[2].handed = <<"s">>
    /\ pt.completed_files = 1
    /\ dl.file_id = "c" /\ dl.result

\* C10: in a folder copy, when the first transfer begins the tracker's
\* total_bytes equals the total size the preflight count computed.
C10_TotalBytesFromPreflight ==
    (cp.pc = "walk" /\ dl.pc = "transfer" /\ dl.chunks = 0
        /\ hist.transfers = 1) =>
        pt.total_bytes = cp.total_size

\* C11: with recursive False neither the preflight count nor the walk goes
\* below the source folder: the only listing either requests is the source's
\* own, the count is the number of its direct children that are not folders,
\* only those children are handed to download_file, into the destination
\* directory itself, no frame is pushed for a subfolder and no local
\* subdirectory appears; completed_files counts direct children only.
C11_NonRecursiveSkipsSubfolders ==
    (cp.source \in FolderIds /\ ~cp.recursive) =>
        /\ hist.preListed \subseteq {cp.source}
        /\ hist.counted >= 0 => hist.counted = Len(FileIds(hist.preItems))
        /\ cp.has_tracker => pt.total_files = Len(FileIds(hist.preItems))
        /\ Len(stack) <= 1
        /\ Len(hist.walkLog) <= 1
        /\ \A k \in DOMAIN hist.walkLog :
              /\ hist.walkLog[k].folder_id = cp.source
              /\ IsPrefix(hist.walkLog[k].handed, FileIds(hist.walkLog[k].items))
              /\ pt.completed_files <= Len(hist.walkLog[k].handed)
              /\ hist.outcome = "summary" =>
                    hist.walkLog[k].handed = FileIds(hist.walkLog[k].items)
        /\ dl.output_dir = <<>>
        /\ dirs \subseteq {<<>>}

\* A non-recursive copy of R ended: the listing held the folder D, the two
\* files beside it were counted and downloaded, nothing of D was.
C11_Witness ==
    /\ cp.source = "R"
    /\ ~cp.recursive
    /\ hist.outcome = "summary"
    /\ Len(hist.walkLog) = 1
    /\ \E j \in DOMAIN hist.walkLog[1].items :
          hist.walkLog[1].items[j].mimeType = "folder"
    /\ hist.walkLog[1].handed = <<"a", "b">>
    /\ pt.total_files = 2
    /\ pt.completed_files = 2
    /\ dirs = {<<>>}

\* C12: when the preflight counts zero files, because the tree holds none
\* or because the listing failed, cp ends there with "No files to copy":
\* no tracker is constructed, cp_folder is not called, download_file is not
\* called, and no temporary file, file or directory is created.
C12_ZeroCountEndsCopy ==
    hist.counted = 0 =>
        /\ cp.pc = "done"
        /\ hist.outcome = "nothing to copy"
        /\ ~cp.has_tracker
        /\ pt = ProgressTrackerInit(0)
        /\ stack = <<>>
        /\ hist.walkLog = <<>>
        /\ dl = DlIdle
        /\ hist.transfers = 0
        /\ dirs = {}
        /\ \A p \in DOMAIN fs : fs[p] = OldFile

\* The listing of R failed in the preflight of a recursive copy, with old
\* files in the destination, and cp has ended.
C12_Witness ==
    /\ hist.counted = 0
    /\ cp.source = "R"
    /\ cp.recursive
    /\ hist.preFailed
    /\ fs # <<>>
    /\ cp.pc = "done"

\* C13: a copy of a single regular file into a destination directory whose
\* download succeeded, with a size s > 0 declared to the tracker (the size
\* the metadata call gave) and a last chunk that reported a progress of 1.0
\* or more, whatever the number of chunks, ends with completed_files =
\* total_files = 1 and downloaded_bytes = s, and the file is in the
\* destination directory under the sanitized name of the remote file.
C13_SingleFileCopy ==
    (cp.pc \in {"single", "done"} /\ cp.source \notin FolderIds /\ cp.destIsDir
        /\ dl.pc = "returned" /\ dl.result /\ dl.mime_type = "file"
        /\ dl.file_size > 0 /\ dl.full) =>
        /\ pt.total_files = 1
        /\ pt.completed_files = 1
        /\ dl.file_size = RemoteNodes(remote)[cp.source].size
        /\ pt.downloaded_bytes = dl.file_size
        /\ dl.file_path = <<SanitizeName(RemoteNodes(remote)[cp.source].name)>>
        /\ dl.file_path \in DOMAIN fs
        /\ fs[dl.file_path].src = cp.source
        /\ fs[dl.file_path].done

\* The copy of b, whose name needs sanitizing, has ended after two chunks.
C13_Witness ==
    /\ hist.outcome = "summary"
    /\ cp.source = "b"
    /\ cp.destIsDir
    /\ dl.result
    /\ dl.full
    /\ dl.chunks = 2
    /\ dl.file_size = 1
    /\ pt.downloaded_bytes = 1
    /\ dl.file_path = << <<"c", ".", "d", "o", "c", "x", ".", "t", "m", "p">> >>
    /\ fs[dl.file_path].n = 2

\* Every child of the folder in the order the service lists them, page
\* after page.
AllItems(version, folder_id) ==
    LET flat == Concat(RemoteNodes(version)[folder_id].pages)
    IN [j \in 1..Len(flat) |-> Item(version, flat[j])]

\* C14: get_folder_items returns the children of all pages, in service
\* order, when no page request fails, and the empty sequence when one
\* fails, also a page after the first: never the pages fetched before the
\* failure.  Its caller goes on: the failed listing is a listing without
\* children.
C14_ListingAllPagesOrEmpty ==
    /\ \A k \in DOMAIN hist.walkLog :
          LET entry == hist.walkLog[k]
          IN /\ entry.failAt # 0 => entry.items = <<>>
             /\ entry.failAt = 0 =>
                   \E v \in Versions : entry.items = AllItems(v, entry.folder_id)
    /\ hist.counted >= 0 =>
          \/ hist.preItems = <<>>
          \/ \E v \in Versions : hist.preItems = AllItems(v, cp.source)
    /\ \A j \in DOMAIN stack :
          stack[j].listed => stack[j].items = hist.walkLog[stack[j].log].items

\* The walk's listing of R failed on its second page, after the first page
\* had been served; the listing was empty and cp went on to its summary.
C14_Witness ==
    /\ hist.outcome = "summary"
    /\ cp.source = "R"
    /\ Len(hist.walkLog) = 1
    /\ hist.walkLog[1].failAt = 2
    /\ hist.walkLog[1].items = <<>>
    /\ hist.preItems # <<>>

\* download_file has returned from a call for a shortcut whose details
\* could not be fetched or lacked the target id or the target type: the
\* result is False and the local files, the directories, the tracker and
\* the number of transfers begun are what they were at the call.
ShortcutUnresolvedLeavesAll ==
    dl.answer \in {"error", "no id", "no type"} =>
        /\ dl.pc = "returned"
        /\ ~dl.result
        /\ fs = dl.at.fs
        /\ dirs = dl.at.dirs
        /\ pt = dl.at.pt
        /\ hist.transfers = dl.at.transfers

\* download_file has returned from a call for a shortcut that resolved: one
\* transfer began, of the target, and what it saved is the target's content.
ShortcutResolvedOneTransfer ==
    (dl.answer = "full" /\ dl.pc = "returned") =>
        /\ \E v \in Versions : dl.file_id = RemoteNodes(v)[dl.at.file_id].target
        /\ dl.mime_type # "shortcut"
        /\ hist.transfers = dl.at.transfers + 1
        /\ dl.result =>
              /\ dl.file_path \in DOMAIN fs
              /\ fs[dl.file_path].src = dl.file_id
              /\ fs[dl.file_path].done

\* C15 as stated: an unresolved shortcut returns failure without any side
\* effect; a shortcut that resolves to a node that is not a shortcut causes
\* exactly one transfer of the target, saved under the shortcut's own local
\* name.
C15_ShortcutOwnName ==
    /\ ShortcutUnresolvedLeavesAll
    /\ ShortcutResolvedOneTransfer
    /\ (dl.answer = "full" /\ dl.pc = "returned") =>
          dl.file_path = Join(dl.output_dir, dl.at.file_name)

\* C15, amended: as above, but the target is saved under the shortcut's
\* local name after the export rule for the target's type: with .docx, .xlsx
\* or .pptx appended when the target is a document, spreadsheet or
\* presentation and the name does not end with it.
C15_ShortcutNameWithExport ==
    /\ ShortcutUnresolvedLeavesAll
    /\ ShortcutResolvedOneTransfer
    /\ (dl.answer = "full" /\ dl.pc = "returned") =>
          dl.file_path =
              Join(dl.output_dir, ExportName(dl.at.file_name, dl.mime_type))

\* The shortcut s of D resolved to the document c and was saved, in the
\* local directory of D, as "s.docx".
C15_Witness ==
    /\ dl.answer = "full"
    /\ dl.pc = "returned"
    /\ dl.result
    /\ dl.at.file_id = "s"
    /\ dl.file_id = "c"
    /\ dl.at.file_name = <<"s">>
    /\ dl.file_path = << <<"D", "_">>, <<"s", ".", "d", "o", "c", "x">> >>
    /\ dl.file_path \in DOMAIN fs

\* The number of download_file calls the cp_folder calls of the walk made.
RECURSIVE TotalHanded(_)
TotalHanded(log) ==
    IF log = <<>> THEN 0 ELSE Len(Head(log).handed) + TotalHanded(Tail(log))

\* C18: when the tree does not change between the preflight and the end of
\* the walk and every listing succeeds, the total_files the preflight
\* counted equals the number of download_file calls cp_folder made, for
\* recursive True and False, a shortcut and a virtual document counting as
\* one file each.
C18_CountEqualsInvocations ==
    (hist.outcome = "summary" /\ cp.source \in FolderIds /\ ~hist.changed
        /\ ~hist.preFailed
        /\ \A k \in DOMAIN hist.walkLog : hist.walkLog[k].failAt = 0) =>
        /\ cp.total_files = TotalHanded(hist.walkLog)
        /\ pt.total_files = TotalHanded(hist.walkLog)

\* A recursive copy of the changed tree ended without a failed listing: the
\* files a and b, the document c and the shortcut s make 4 files counted
\* and 4 calls.
C18_Witness ==
    /\ hist.outcome = "summary"
    /\ cp.source = "R"
    /\ cp.recursive
    /\ remote = "v2"
    /\ ~hist.changed
    /\ ~hist.preFailed
    /\ \A k \in DOMAIN hist.walkLog : hist.walkLog[k].failAt = 0
    /\ cp.total_files = 4
    /\ Len(hist.walkLog) = 2
    /\ hist.walkLog[1].handed = <<"a", "b", "c">>
    /\ hist.walkLog[2].handed = <<"s">>

\* C19: in every state completed_files equals the number of download_file
\* calls made by cp that have returned True.  So a call that is still
\* transferring or has not renamed its temporary file has added nothing, a
\* call that returned False has added nothing, a call that returned True
\* left its complete file at the final path, and a shortcut followed through
\* the recursive call added one, not two.
C19_CompletedCountsSuccesses ==
    /\ cp.has_tracker => pt.completed_files = hist.returnedTrue
    /\ (dl.pc = "returned" /\ dl.result) =>
          /\ dl.file_path \in DOMAIN fs
          /\ fs[dl.file_path].src = dl.file_id
          /\ fs[dl.file_path].done
    /\ (dl.pc = "returned" /\ dl.answer = "full") =>
          pt.completed_files =
              dl.at.pt.completed_files + (IF dl.result THEN 1 ELSE 0)

\* A recursive copy ended in which a was downloaded, the shortcut s was
\* followed and downloaded, and the transfer of b failed after a chunk:
\* three calls, two files completed.
C19_Witness ==
    /\ hist.outcome = "summary"
    /\ cp.recursive
    /\ remote = "v1"
    /\ Len(hist.walkLog) = 2
    /\ hist.walkLog[1].handed = <<"a", "b">>
    /\ hist.walkLog[2].handed = <<"s">>
    /\ dl.file_id = "b"
    /\ ~dl.result
    /\ dl.chunks >= 1
    /\ << <<"D", "_">>, <<"s">> >> \in DOMAIN fs
    /\ hist.returnedTrue = 2
    /\ pt.completed_files = 2

\* A step changes the local files at most at the final path and the
\* temporary path of the download_file call in progress.
OnlyOwnPaths ==
    \A p \in DOMAIN fs \cup DOMAIN fs' :
        ContentAt(fs', p) # ContentAt(fs, p) =>
            p \in {dl'.file_path, dl'.temp_path}

\* When a folder copy has ended, every file that a download of the copy
\* published, and whose final name no later download of the copy had, is
\* there with the content it was published with.
PublishedStay ==
    (hist.outcome = "summary" /\ cp.source \in FolderIds) =>
        \A p \in DOMAIN hist.published :
            ContentAt(fs, p) = hist.published[p]

\* C20: download_file creates, truncates, renames and removes local files
\* only at its own final path and its own temporary path, and a file that
\* an earlier successful download of the same folder copy published under a
\* different final name is still there with its content when the copy ends,
\* also when that name is the later file's temporary name (its final name
\* followed by ".tmp").
C20_EarlierFilesStay ==
    [][OnlyOwnPaths]_vars /\ []PublishedStay

\* The positions at which a thread waits for the tracker's lock.
WaitPcs == {MethodPcs[m].wait : m \in DOMAIN MethodPcs}

\* The positions of a thread that is in no call of a tracker method (for
\* the thread of cp: in no call of get_speed and not reading the fields).
OutsidePcs == {"start", "loop", "display_progress", "join", "done"}

\* C21: no tracker method tries to take the lock while its caller holds it
\* (display_progress calls get_speed and get_eta inside its critical
\* section, and they take no lock): in every interleaving of the tasks'
\* update_file, update_progress, display_progress and complete_file calls
\* no thread waits for a lock it holds, the lock is held only by a thread
\* inside a call, every call that has begun returns, and in the end every
\* thread is done and the lock is free.
C21_NoSelfDeadlock ==
    /\ [](\A t \in Threads : th[t].pc \in WaitPcs => lock # t)
    /\ [](\A t \in Threads : th[t].pc \in OutsidePcs => lock # t)
    /\ <>[](lock = "free" /\ \A t \in Threads : th[t].pc = "done")

\* Task t1 is in the get_speed that get_eta called from display_progress,
\* holding the lock, while task t2 waits for the lock.
C21_Witness ==
    /\ lock = "t1"
    /\ th["t1"].pc = "get_speed"
    /\ th["t1"].ret = <<"get_eta_rest", "display_progress_print">>
    /\ th["t2"].pc \in WaitPcs
====
